---------------------------- MODULE Spec2Model ----------------------------
(***************************************************************************)
(* Model of RangeRite_ADC_TwoPointCal_Example.ino: an Arduino sketch that  *)
(* configures an ADS868x/ADS869x SPI ADC, reads and averages raw codes,    *)
(* converts the averaged code to volts and optionally applies a two-point  *)
(* calibration.                                                            *)
(*                                                                         *)
(* Number representations.  TLC integers are 32-bit signed, so             *)
(*   - a uint32_t is a record [hi, lo] of two 16-bit halves;                *)
(*   - a float is IEEE-754 binary32 with round-to-nearest-even, held as a  *)
(*     record [s, m, e] standing for (-1)^s * m * 2^e with m = 0 (zero) or *)
(*     2^23 <= m < 2^24.  Subnormals and overflow are outside the inputs   *)
(*     the model draws; a division by zero gives FNonFinite (inf or NaN),  *)
(*     which every later operation propagates.  -0 is identified with +0   *)
(*     (they compare equal in C).                                          *)
(***************************************************************************)
EXTENDS Integers, Sequences, FiniteSets, TLC

(***************************************************************************)
(* binary32 arithmetic, as the compiler performs the sketch's float        *)
(* expressions.                                                            *)
(***************************************************************************)
F32(s, m, e) == [s |-> s, m |-> m, e |-> e]

FZero == F32(0, 0, 0)

\* inf or NaN: the result of x / 0 and of any operation on it
FNonFinite == F32(0, 0, 1)

IsFinite(a) == a # FNonFinite

RECURSIVE BitLen(_)
BitLen(M) == IF M = 0 THEN 0 ELSE 1 + BitLen(M \div 2)

\* Round the exact value (M + st * frac) * 2^e, 0 < frac < 1, to binary32
\* (nearest, ties to even).  st = 1 only when M has at least 26 bits.
RoundPack(s, M, e, st) ==
  IF M = 0 THEN FZero
  ELSE LET k == BitLen(M) IN
       IF k <= 24 THEN F32(s, M * 2^(24 - k), e - (24 - k))
       ELSE LET sh   == k - 24
                q    == M \div 2^sh
                r    == M % 2^sh
                half == 2^(sh - 1)
                up   == r > half \/ (r = half /\ (st = 1 \/ q % 2 = 1))
                q1   == IF up THEN q + 1 ELSE q
            IN IF q1 = 2^24 THEN F32(s, 2^23, e + sh + 1)
                            ELSE F32(s, q1, e + sh)

FNeg(a) == IF a.m = 0 THEN a ELSE F32(1 - a.s, a.m, a.e)

\* |a| < |b| for finite a, b
FMagLess(a, b) ==
  IF b.m = 0 THEN FALSE
  ELSE IF a.m = 0 THEN TRUE
  ELSE a.e < b.e \/ (a.e = b.e /\ a.m < b.m)

\* a < b for finite a, b
FLess(a, b) ==
  IF a.s = 1 /\ b.s = 0 THEN TRUE
  ELSE IF a.s = 0 /\ b.s = 1 THEN FALSE
  ELSE IF a.s = 0 THEN FMagLess(a, b)
  ELSE FMagLess(b, a)

\* a + b: three guard bits and a sticky bit, then one rounding
FAdd(a, b) ==
  IF ~IsFinite(a) \/ ~IsFinite(b) THEN FNonFinite
  ELSE IF a.m = 0 THEN b
  ELSE IF b.m = 0 THEN a
  ELSE LET x  == IF FMagLess(a, b) THEN b ELSE a
           y  == IF FMagLess(a, b) THEN a ELSE b
           d  == IF x.e - y.e > 28 THEN 28 ELSE x.e - y.e
           X  == x.m * 8
           Ys == (y.m * 8) \div 2^d
           st == IF (y.m * 8) % 2^d # 0 THEN 1 ELSE 0
           M  == IF x.s = y.s THEN X + Ys ELSE X - Ys - st
       IN RoundPack(x.s, M, x.e - 3, st)

FSub(a, b) == FAdd(a, FNeg(b))

\* a * b: the 48-bit product of the significands from 12-bit limbs
FMul(a, b) ==
  IF ~IsFinite(a) \/ ~IsFinite(b) THEN FNonFinite
  ELSE IF a.m = 0 \/ b.m = 0 THEN FZero
  ELSE LET a1  == a.m \div 4096
           a0  == a.m % 4096
           b1  == b.m \div 4096
           b0  == b.m % 4096
           mid == a1 * b0 + a0 * b1
           L0  == a0 * b0 + (mid % 4096) * 4096
           L   == L0 % 2^24
           H   == a1 * b1 + mid \div 4096 + L0 \div 2^24
           M   == H * 4 + L \div 2^22
           st  == IF L % 2^22 # 0 THEN 1 ELSE 0
       IN RoundPack((a.s + b.s) % 2, M, a.e + b.e + 22, st)

\* k more quotient bits of r / d by long division: <<quotient, remainder>>
RECURSIVE DivBits(_, _, _, _)
DivBits(r, d, k, q) ==
  IF k = 0 THEN <<q, r>>
  ELSE LET bit == IF r >= d THEN 1 ELSE 0
       IN DivBits((r - bit * d) * 2, d, k - 1, q * 2 + bit)

\* a / b
FDiv(a, b) ==
  IF ~IsFinite(a) \/ ~IsFinite(b) \/ b.m = 0 THEN FNonFinite
  ELSE IF a.m = 0 THEN FZero
  ELSE LET qr == DivBits(a.m, b.m, 27, 0)
       IN RoundPack((a.s + b.s) % 2, qr[1], a.e - b.e - 26,
                    IF qr[2] # 0 THEN 1 ELSE 0)

\* (float)n for an integer 0 <= n < 2^31
FFromInt(n) == RoundPack(0, n, 0, 0)

\* (float)u for a uint32_t u = [hi, lo]
FFromU32(u) ==
  IF u.hi < 32768 THEN FFromInt(u.hi * 65536 + u.lo)
  ELSE RoundPack(0, u.hi * 32768 + u.lo \div 2, 1, u.lo % 2)

\* (uint32_t)a for a finite float 0 <= a < 2^31: truncation toward zero
FTruncToInt(a) ==
  IF a.m = 0 \/ a.e <= -24 THEN 0
  ELSE IF a.e >= 0 THEN a.m * 2^a.e
  ELSE a.m \div 2^(0 - a.e)


(***************************************************************************)
(* Float literals of the sketch, as binary32.                              *)
(***************************************************************************)
F_4_096  == F32(0, 8589935, -21)      \* 4.096f
F_3_0    == F32(0, 12582912, -22)     \* 3.0f
F_2_5    == F32(0, 10485760, -22)     \* 2.5f
F_1_5    == F32(0, 12582912, -23)     \* 1.5f
F_1_25   == F32(0, 10485760, -23)     \* 1.25f
F_0_625  == F32(0, 10485760, -24)     \* 0.625f
F_1_0    == F32(0, 8388608, -23)      \* 1.0f

ADSX_CAL_P1_ACTUAL   == F32(1, 10485970, -20)   \* -10.0002f
ADSX_CAL_P1_MEASURED == F32(1, 10487543, -20)   \* -10.0017f
ADSX_CAL_P2_ACTUAL   == F32(0, 10488591, -20)   \*  10.0027f
ADSX_CAL_P2_MEASURED == F32(0, 10490479, -20)   \*  10.0045f

(***************************************************************************)
(* Compile-time selections and register fields.                            *)
(***************************************************************************)
ADSX_BITS_CHOICES == {16, 18}

ADSX_CODE_SHIFT(bits) == IF bits = 18 THEN 14 ELSE 16

ADSX_CODE_MASK(bits) == IF bits = 18 THEN 262143 ELSE 65535

ADSX_REG_RANGE_SEL == 20

ADSX_INTREF_ENABLE == 0

ADSX_INTREF_DISABLE == 64

ADSX_RANGE_BIPOLAR_3X == 0

ADSX_CAL_RANGE_CODE == ADSX_RANGE_BIPOLAR_3X

OPCODE_WRITE_HWORD == 208

\* The nine legal RANGE_SEL[3:0] selectors with multiplier and polarity
RangeTable ==
  { [code |-> 0,  mult |-> F_3_0,   bipolar |-> TRUE],
    [code |-> 1,  mult |-> F_2_5,   bipolar |-> TRUE],
    [code |-> 2,  mult |-> F_1_5,   bipolar |-> TRUE],
    [code |-> 3,  mult |-> F_1_25,  bipolar |-> TRUE],
    [code |-> 4,  mult |-> F_0_625, bipolar |-> TRUE],
    [code |-> 8,  mult |-> F_3_0,   bipolar |-> FALSE],
    [code |-> 9,  mult |-> F_2_5,   bipolar |-> FALSE],
    [code |-> 10, mult |-> F_1_5,   bipolar |-> FALSE],
    [code |-> 11, mult |-> F_1_25,  bipolar |-> FALSE] }

(***************************************************************************)
(* uint32_t as two 16-bit halves.                                          *)
(***************************************************************************)
U32(hi, lo) == [hi |-> hi, lo |-> lo]

\* the accumulator declared uint16_t
Add16(u, code) == U32(0, (u.lo + code) % 65536)

\* code_accumulator += code, modulo 2^32 (code < 2^18)
Add32(u, code) ==
  U32((u.hi + (u.lo + code) \div 65536) % 65536, (u.lo + code) % 65536)

\* the same sum without the 32-bit wrap
AddWide(u, code) ==
  U32(u.hi + (u.lo + code) \div 65536, (u.lo + code) % 65536)

\* (r0 << 24) | (r1 << 16) | (r2 << 8) | r3
Assemble(r) == U32(r[1] * 256 + r[2], r[3] * 256 + r[4])

\* (w >> ADSX_CODE_SHIFT) & ADSX_CODE_MASK
adsxReadCodeNbits(w, bits) ==
  (w.hi * 2^(16 - ADSX_CODE_SHIFT(bits)) + w.lo \div 2^(ADSX_CODE_SHIFT(bits)))
    % (ADSX_CODE_MASK(bits) + 1)

(***************************************************************************)
(* Pure functions of the sketch.                                           *)
(***************************************************************************)
\* adsxSetRange: (range_code & 0x000F) | (useInternalRef ? ... : ...)
adsxSetRangeData(range_code, useInternalRef) ==
  (range_code % 16) +
  (IF useInternalRef THEN ADSX_INTREF_ENABLE ELSE ADSX_INTREF_DISABLE)

adsxSetVrefVolts(cur, vref_volts) ==
  IF FLess(FZero, vref_volts) THEN vref_volts ELSE cur

\* case ADSX_RANGE_BIPOLAR_0P625X copied from a unipolar line
adsxRangeMultiplierSlip(code) ==
  LET c == code % 16 IN
  CASE c = 0  -> [mult |-> F_3_0,   isBipolar |-> TRUE]
    [] c = 1  -> [mult |-> F_2_5,   isBipolar |-> TRUE]
    [] c = 2  -> [mult |-> F_1_5,   isBipolar |-> TRUE]
    [] c = 3  -> [mult |-> F_1_25,  isBipolar |-> TRUE]
    [] c = 4  -> [mult |-> F_0_625, isBipolar |-> FALSE]
    [] c = 8  -> [mult |-> F_3_0,   isBipolar |-> FALSE]
    [] c = 9  -> [mult |-> F_2_5,   isBipolar |-> FALSE]
    [] c = 10 -> [mult |-> F_1_5,   isBipolar |-> FALSE]
    [] c = 11 -> [mult |-> F_1_25,  isBipolar |-> FALSE]
    [] OTHER  -> [mult |-> F_1_25,  isBipolar |-> FALSE]

adsxRangeMultiplier(code) ==
  LET c == code % 16 IN
  CASE c = 0  -> [mult |-> F_3_0,   isBipolar |-> TRUE]
    [] c = 1  -> [mult |-> F_2_5,   isBipolar |-> TRUE]
    [] c = 2  -> [mult |-> F_1_5,   isBipolar |-> TRUE]
    [] c = 3  -> [mult |-> F_1_25,  isBipolar |-> TRUE]
    [] c = 4  -> [mult |-> F_0_625, isBipolar |-> TRUE]
    [] c = 8  -> [mult |-> F_3_0,   isBipolar |-> FALSE]
    [] c = 9  -> [mult |-> F_2_5,   isBipolar |-> FALSE]
    [] c = 10 -> [mult |-> F_1_5,   isBipolar |-> FALSE]
    [] c = 11 -> [mult |-> F_1_25,  isBipolar |-> FALSE]
    [] OTHER  -> [mult |-> F_1_25,  isBipolar |-> FALSE]

\* the clamp left out
ClampCodeNone(codeN, bits) == codeN

\* if (codeN > ADSX_CODE_MASK) codeN = ADSX_CODE_MASK;
ClampCode(codeN, bits) ==
  IF codeN > ADSX_CODE_MASK(bits) THEN ADSX_CODE_MASK(bits) ELSE codeN

adsxCodeToVolts(codeN, bits, range_code, vref) ==
  LET c   == ClampCode(codeN, bits)
      rm  == adsxRangeMultiplier(range_code)
      PFS == FMul(rm.mult, vref)
      NFS == IF rm.isBipolar THEN FNeg(PFS) ELSE FZero
      FSR == FSub(PFS, NFS)
      LSB == FDiv(FSR, FFromInt(2^bits))
  IN FAdd(NFS, FMul(FFromInt(c), LSB))

\* the guard against identical measured points left out
CalPointsAlways(cal) == TRUE

\* if (ADSX_CAL_P2_MEASURED != ADSX_CAL_P1_MEASURED)
CalPointsDistinct(cal) == cal.p2m # cal.p1m

\* the offset taken at the second measured point
TwoPointFitP2(cal) ==
  LET slope == FDiv(FSub(cal.p2a, cal.p1a), FSub(cal.p2m, cal.p1m))
  IN [slope |-> slope, offset |-> FSub(cal.p1a, FMul(slope, cal.p2m))]

\* slope and offset of ACTUAL = m * MEASURED + b
TwoPointFit(cal) ==
  LET slope == FDiv(FSub(cal.p2a, cal.p1a), FSub(cal.p2m, cal.p1m))
  IN [slope |-> slope, offset |-> FSub(cal.p1a, FMul(slope, cal.p1m))]

\* the range test left out of the condition
CalAppliesAnyRange(cal_enabled, range_code) == cal_enabled

\* if (g_cal_enabled && (g_range_code == ADSX_CAL_RANGE_CODE))
CalApplies(cal_enabled, range_code) ==
  cal_enabled /\ range_code = ADSX_CAL_RANGE_CODE

\* the value adsxReadAveragedVolts returns for the raw voltage
ApplyCal(two_point_cal, cal_enabled, range_code, slope, offset, volts_raw) ==
  IF two_point_cal /\ CalApplies(cal_enabled, range_code)
  THEN FAdd(offset, FMul(slope, volts_raw))
  ELSE volts_raw

(***************************************************************************)
(* Bounds of the model.                                                    *)
(***************************************************************************)
\* adsxReadCodeRaw32 calls followed in one run of the sketch
MaxCalls == 5

\* largest g_num_averages the sketch is run with (0 is floored to 1)
MaxAverages == 3

\* words other than all-ones the long accumulation run may read
MaxLowWords == 2

(***************************************************************************)
(* State.                                                                  *)
(*   cfg  compile-time choices: ADSX_BITS, ADSX_ENABLE_TWO_POINT_CAL and   *)
(*        the calibration points                                           *)
(*   g    the sketch's globals                                             *)
(*   pc   the statement the single thread is at                            *)
(*   loc  locals of the running function                                   *)
(*   spi  PIN_CS level and the number of open SPI transactions             *)
(*   dev  the ADC: RANGE_SEL register, number of writes to it, and the     *)
(*        conversion started by the last CS rising edge                    *)
(*   obs  history kept for the properties only                             *)
(***************************************************************************)
VARIABLES cfg, g, pc, loc, spi, dev, obs

vars == <<cfg, g, pc, loc, spi, dev, obs>>

CalTuple(p1a, p1m, p2a, p2m) ==
  [p1a |-> p1a, p1m |-> p1m, p2a |-> p2a, p2m |-> p2m]

\* the sketch's own points, a degenerate pair, and a unipolar pair
SketchCal == CalTuple(ADSX_CAL_P1_ACTUAL, ADSX_CAL_P1_MEASURED,
                      ADSX_CAL_P2_ACTUAL, ADSX_CAL_P2_MEASURED)

CalInputs ==
  { SketchCal,
    CalTuple(ADSX_CAL_P1_ACTUAL, ADSX_CAL_P2_MEASURED,
             ADSX_CAL_P2_ACTUAL, ADSX_CAL_P2_MEASURED),
    CalTuple(F32(0, 8393641, -24), F32(0, 8408741, -24),      \* 0.5003, 0.5012
             F32(0, 9435297, -21), F32(0, 9441378, -21)) }    \* 4.4991, 4.502

\* initial values of g_range_code: the calibration range, a unipolar range,
\* a selector outside the table, and a value with bits above RANGE_SEL[3:0]
RangeInputs == {0, 11, 5, 16}

\* codes the ADC may produce
DevCodes(bits) == {0, ADSX_CODE_MASK(bits) \div 2, ADSX_CODE_MASK(bits)}

\* bits of the output word below the conversion code
DevLowBits(bits) == {0, 2^ADSX_CODE_SHIFT(bits) - 1}

NoConv == [by |-> "none", call |-> 0]

LocInit ==
  [data |-> 0, acc |-> U32(0, 0), n |-> 0, i |-> 0, w |-> U32(0, 0),
   codeN |-> 0, volts_raw |-> FZero, volts |-> FZero]

ObsInit ==
  [calls |-> 0, wFrom |-> NoConv, accFrom |-> {}, diag |-> {}, divs |-> 0,
   sum |-> U32(0, 0), low |-> 0, prev |-> [codeN |-> 0, volts |-> FZero]]

GInit(range_code, num_averages) ==
  [range_code |-> range_code, useInternalRef |-> TRUE, vref_volts |-> F_4_096,
   num_averages |-> num_averages, cal_enabled |-> FALSE,
   cal_slope |-> F_1_0, cal_offset |-> FZero]

\* power-on: pins are inputs, the ADC holds its reset defaults and the
\* result of a conversion nobody asked for
Init ==
  /\ \E bits \in ADSX_BITS_CHOICES, tpc \in BOOLEAN, cal \in CalInputs :
       /\ (~tpc => cal = SketchCal)
       /\ cfg = [bits |-> bits, two_point_cal |-> tpc, cal |-> cal]
       /\ \E code \in DevCodes(bits) :
            dev = [range_sel |-> 0, writes |-> 0,
                   conv |-> [by |-> "por", call |-> 0, code |-> code, low |-> 0]]
  /\ \E r \in RangeInputs, na \in 0..MaxAverages : g = GInit(r, na)
  /\ pc = "setup"
  /\ loc = LocInit
  /\ spi = [cs |-> "INPUT", txn |-> 0]
  /\ obs = ObsInit

(***************************************************************************)
(* Control flow.                                                           *)
(***************************************************************************)
\* setup() without its call of adsxSetRange
SetupNextNoRange == "setup_cal"

\* statement setup() continues with after the pin set-up
SetupNext == "sr_begin1"

BeginLabels == {"sr_begin1", "sr_begin2", "rd_begin"}

EndLabels == {"sr_end1", "sr_end2", "rd_end"}

\* a frame is about to start / is in progress
FrameLabels == {"sr_wr", "sr_nop1", "sr_nop2", "rd_nop1", "rd_nop2"}

InFrameLabels == {"sr_wr_x", "sr_nop1_x", "sr_nop2_x", "rd_nop1_x", "rd_nop2_x"}

Succ(l) ==
  CASE l = "sr_begin1" -> "sr_wr"
    [] l = "sr_wr"     -> "sr_wr_x"
    [] l = "sr_wr_x"   -> "sr_end1"
    [] l = "sr_end1"   -> "sr_store"
    [] l = "sr_store"  -> "sr_begin2"
    [] l = "sr_begin2" -> "sr_nop1"
    [] l = "sr_nop1"   -> "sr_nop1_x"
    [] l = "sr_nop1_x" -> "sr_nop2"
    [] l = "sr_nop2"   -> "sr_nop2_x"
    [] l = "sr_nop2_x" -> "sr_end2"
    [] l = "sr_end2"   -> "setup_cal"
    [] l = "rd_begin"  -> "rd_nop1"
    [] l = "rd_nop1"   -> "rd_nop1_x"
    [] l = "rd_nop1_x" -> "rd_nop2"
    [] l = "rd_nop2"   -> "rd_nop2_x"
    [] l = "rd_nop2_x" -> "rd_end"
    [] l = "rd_end"    -> "rd_ret"

\* the word of the first frame kept instead of the second's
KeepsWordFirst(l) == l = "rd_nop1_x"

\* the frame whose returned word the caller keeps: uint32_t w = frameNOP();
KeepsWord(l) == l = "rd_nop2_x"

\* SPI.beginTransaction left out
TxnAfterBeginSame(t) == t

\* number of open transactions after SPI.beginTransaction
TxnAfterBegin(t) == t + 1

(***************************************************************************)
(* The ADC on the bus.                                                     *)
(***************************************************************************)
\* bytes shifted out on MOSI by the frame at l
FrameOut(l, data) ==
  IF l = "sr_wr_x"
  THEN <<OPCODE_WRITE_HWORD, ADSX_REG_RANGE_SEL, data \div 256, data % 256>>
  ELSE <<0, 0, 0, 0>>

\* bytes the ADC shifts out: the previous conversion's code, MSB-aligned
DeviceWord(bits, conv) ==
  IF bits = 18
  THEN <<conv.code \div 1024, (conv.code \div 4) % 256,
         (conv.code % 4) * 64 + conv.low \div 256, conv.low % 256>>
  ELSE <<conv.code \div 256, conv.code % 256,
         conv.low \div 256, conv.low % 256>>

\* the ADC after the CS rising edge that ends a frame: a WRITE to RANGE_SEL
\* takes effect and a new conversion starts
DeviceAfter(d, out, conv) ==
  IF out[1] = OPCODE_WRITE_HWORD /\ out[2] = ADSX_REG_RANGE_SEL
  THEN [range_sel |-> out[3] * 256 + out[4], writes |-> d.writes + 1,
        conv |-> conv]
  ELSE [d EXCEPT !.conv = conv]

(***************************************************************************)
(* Actions.                                                                *)
(***************************************************************************)
\* setup(): Serial, PIN_CS, reset pulse, SPI.begin, adsxSetVrefVolts, and
\* the argument evaluation of adsxSetRange(g_range_code, true)
setup_pins ==
  /\ pc = "setup"
  /\ spi' = [spi EXCEPT !.cs = "HIGH"]
  /\ g' = [g EXCEPT !.vref_volts = adsxSetVrefVolts(g.vref_volts, F_4_096)]
  /\ loc' = [loc EXCEPT !.data = adsxSetRangeData(g.range_code, TRUE)]
  /\ pc' = SetupNext
  /\ UNCHANGED <<cfg, dev, obs>>

SPI_beginTransaction ==
  /\ pc \in BeginLabels
  /\ pc = "rd_begin" => obs.calls < MaxCalls
  /\ spi' = [spi EXCEPT !.txn = TxnAfterBegin(spi.txn)]
  /\ obs' = IF pc = "rd_begin" THEN [obs EXCEPT !.calls = obs.calls + 1] ELSE obs
  /\ pc' = Succ(pc)
  /\ UNCHANGED <<cfg, g, loc, dev>>

\* xfer32: digitalWrite(PIN_CS, LOW)
xfer32_select ==
  /\ pc \in FrameLabels
  /\ spi' = [spi EXCEPT !.cs = "LOW"]
  /\ pc' = Succ(pc)
  /\ UNCHANGED <<cfg, g, loc, dev, obs>>

\* xfer32: the four SPI.transfer calls, digitalWrite(PIN_CS, HIGH) and the
\* returned word; writeRegHWord and the callers' delayMicroseconds follow
xfer32_release ==
  /\ pc \in InFrameLabels
  /\ \E code \in DevCodes(cfg.bits), low \in DevLowBits(cfg.bits) :
       dev' = DeviceAfter(dev, FrameOut(pc, loc.data),
                          [by |-> pc, call |-> obs.calls,
                           code |-> code, low |-> low])
  /\ spi' = [spi EXCEPT !.cs = "HIGH"]
  /\ IF KeepsWord(pc)
     THEN /\ loc' = [loc EXCEPT !.w = Assemble(DeviceWord(cfg.bits, dev.conv))]
          /\ obs' = [obs EXCEPT !.wFrom = [by |-> dev.conv.by,
                                          call |-> dev.conv.call]]
     ELSE UNCHANGED <<loc, obs>>
  /\ pc' = Succ(pc)
  /\ UNCHANGED <<cfg, g>>

SPI_endTransaction ==
  /\ pc \in EndLabels
  /\ spi' = [spi EXCEPT !.txn = spi.txn - 1]
  /\ pc' = Succ(pc)
  /\ UNCHANGED <<cfg, g, loc, dev, obs>>

\* adsxSetRange: g_range_code = range_code & 0x000F; g_useInternalRef = ...
adsxSetRange_store ==
  /\ pc = "sr_store"
  /\ g' = [g EXCEPT !.range_code = g.range_code % 16, !.useInternalRef = TRUE]
  /\ pc' = Succ(pc)
  /\ UNCHANGED <<cfg, loc, spi, dev, obs>>

\* setup(): the calibration fit and its diagnostics
setup_cal ==
  /\ pc = "setup_cal"
  /\ IF cfg.two_point_cal /\ CalPointsDistinct(cfg.cal)
     THEN /\ g' = [g EXCEPT !.cal_slope = TwoPointFit(cfg.cal).slope,
                            !.cal_offset = TwoPointFit(cfg.cal).offset,
                            !.cal_enabled = TRUE]
          /\ obs' = [obs EXCEPT
               !.divs = obs.divs + 1,
               !.diag = {"enabled"} \cup
                        (IF g.range_code # ADSX_CAL_RANGE_CODE
                         THEN {"range_warning"} ELSE {})]
     ELSE /\ g' = [g EXCEPT !.cal_enabled = FALSE]
          /\ obs' = [obs EXCEPT
               !.diag = IF cfg.two_point_cal THEN {"disabled"} ELSE {}]
  /\ pc' = "avg_init"
  /\ UNCHANGED <<cfg, loc, spi, dev>>

\* loop() calls adsxReadAveragedVolts: accumulator, n, first loop test
adsxReadAveragedVolts_begin ==
  /\ pc = "avg_init"
  /\ loc' = [loc EXCEPT !.acc = U32(0, 0), !.i = 0,
                        !.n = IF g.num_averages < 1 THEN 1 ELSE g.num_averages]
  /\ obs' = [obs EXCEPT !.sum = U32(0, 0), !.accFrom = {}]
  /\ pc' = "rd_begin"
  /\ UNCHANGED <<cfg, g, spi, dev>>

\* adsxReadCodeRaw32 returns w; adsxReadCodeNbits aligns it; the code is
\* added to the accumulator; delay(1); i++ and the loop test
adsxReadAveragedVolts_accumulate ==
  /\ pc = "rd_ret"
  /\ LET code == adsxReadCodeNbits(loc.w, cfg.bits) IN
       /\ loc' = [loc EXCEPT !.acc = Add32(loc.acc, code), !.i = loc.i + 1,
                             !.w = U32(0, 0)]
       /\ obs' = [obs EXCEPT !.sum = AddWide(obs.sum, code),
                             !.accFrom = obs.accFrom \cup {obs.wFrom.by},
                             !.wFrom = NoConv]
  /\ pc' = IF loc.i + 1 < loc.n THEN "rd_begin" ELSE "avg_fin"
  /\ UNCHANGED <<cfg, g, spi, dev>>

\* adsxReadAveragedVolts: average, conversion, calibration, return
adsxReadAveragedVolts_return ==
  /\ pc = "avg_fin"
  /\ LET avg_code  == FDiv(FFromU32(loc.acc), FFromInt(loc.n))
         codeN     == FTruncToInt(avg_code)
         volts_raw == adsxCodeToVolts(codeN, cfg.bits, g.range_code,
                                      g.vref_volts)
     IN loc' = [loc EXCEPT
          !.codeN = codeN,
          !.volts_raw = volts_raw,
          !.volts = ApplyCal(cfg.two_point_cal, g.cal_enabled, g.range_code,
                             g.cal_slope, g.cal_offset, volts_raw)]
  /\ pc' = "loop_print"
  /\ UNCHANGED <<cfg, g, spi, dev, obs>>

\* loop(): Serial.println(volts, 5); delay(2000); the locals die
loop_print ==
  /\ pc = "loop_print"
  /\ loc' = LocInit
  /\ pc' = "avg_init"
  /\ UNCHANGED <<cfg, g, spi, dev, obs>>

Next ==
  \/ setup_pins
  \/ SPI_beginTransaction
  \/ xfer32_select
  \/ xfer32_release
  \/ SPI_endTransaction
  \/ adsxSetRange_store
  \/ setup_cal
  \/ adsxReadAveragedVolts_begin
  \/ adsxReadAveragedVolts_accumulate
  \/ adsxReadAveragedVolts_return
  \/ loop_print

Spec == Init /\ [][Next]_vars

(***************************************************************************)
(* adsxCodeToVolts on its own: any range selector, the reference voltages  *)
(* adsxSetVrefVolts accepts, and codes at the ends, around midscale and    *)
(* beyond the mask.                                                        *)
(***************************************************************************)
\* arguments offered to adsxSetVrefVolts: 4.096f, 2.5f, 5.0f, 0.0f, -2.5f
VrefInputs ==
  {F_4_096, F_2_5, F32(0, 10485760, -21), FZero, F32(1, 10485760, -22)}

CodeInputs(bits) ==
  LET mask == ADSX_CODE_MASK(bits) IN
  {0, 1, 2, mask \div 2, mask \div 2 + 1, mask \div 2 + 2,
   mask - 1, mask, mask + 1, mask + 2, 2 * mask, 2147483647}

InitFn ==
  /\ \E bits \in ADSX_BITS_CHOICES :
       cfg = [bits |-> bits, two_point_cal |-> FALSE, cal |-> SketchCal]
  /\ \E r \in 0..15, v \in VrefInputs :
       g = [GInit(r, 1) EXCEPT !.vref_volts = adsxSetVrefVolts(F_4_096, v)]
  /\ pc = "fn"
  /\ loc = LocInit
  /\ spi = [cs |-> "HIGH", txn |-> 0]
  /\ dev = [range_sel |-> 0, writes |-> 0,
            conv |-> [by |-> "por", call |-> 0, code |-> 0, low |-> 0]]
  /\ obs = ObsInit

\* float v = adsxCodeToVolts(c); the previous call's argument and result
\* are remembered in obs.prev
call_adsxCodeToVolts ==
  /\ pc = "fn"
  /\ \E c \in CodeInputs(cfg.bits) :
       loc' = [loc EXCEPT
         !.codeN = c,
         !.volts_raw = adsxCodeToVolts(c, cfg.bits, g.range_code, g.vref_volts)]
  /\ obs' = [obs EXCEPT
       !.calls = IF obs.calls < 2 THEN obs.calls + 1 ELSE 2,
       !.prev = [codeN |-> loc.codeN, volts |-> loc.volts_raw]]
  /\ UNCHANGED <<cfg, g, pc, spi, dev>>

NextFn == call_adsxCodeToVolts

SpecFn == InitFn /\ [][NextFn]_vars

(***************************************************************************)
(* The calibration fit of setup() on its own, over pairs of (actual,       *)
(* measured) points a user would enter: a reference voltage and the        *)
(* sketch's uncalibrated reading of it.                                    *)
(***************************************************************************)
CalPairs ==
  { <<ADSX_CAL_P1_ACTUAL, ADSX_CAL_P1_MEASURED>>,
    <<ADSX_CAL_P2_ACTUAL, ADSX_CAL_P2_MEASURED>>,
    <<F32(1, 10485760, -21), F32(1, 10488277, -21)>>,   \* -5.0, -5.0012
    <<F32(0, 8393641, -24),  F32(0, 8408741, -24)>>,    \* 0.5003, 0.5012
    <<F32(0, 9435297, -21),  F32(0, 9441378, -21)>>,    \* 4.4991, 4.502
    <<F32(0, 0, 0),          F32(0, 15461882, -34)>>,   \* 0.0, 0.0009
    <<F32(0, 12582912, -20), F32(0, 12581654, -20)>>,   \* 12.0, 11.9988
    <<F_2_5, F_2_5>> }                                  \* 2.5, 2.5

InitFit ==
  /\ \E bits \in ADSX_BITS_CHOICES, p1 \in CalPairs, p2 \in CalPairs :
       cfg = [bits |-> bits, two_point_cal |-> TRUE,
              cal |-> CalTuple(p1[1], p1[2], p2[1], p2[2])]
  /\ \E r \in {0, 11} : g = GInit(r, 1)
  /\ pc = "setup_cal"
  /\ loc = LocInit
  /\ spi = [cs |-> "HIGH", txn |-> 0]
  /\ dev = [range_sel |-> g.range_code, writes |-> 1,
            conv |-> [by |-> "sr_nop2_x", call |-> 0, code |-> 0, low |-> 0]]
  /\ obs = ObsInit

NextFit == setup_cal

SpecFit == InitFit /\ [][NextFit]_vars

(***************************************************************************)
(* One call of adsxReadAveragedVolts with the largest averaging count the  *)
(* specification speaks of, the read of the device reduced to the word it  *)
(* returns.                                                                *)
(***************************************************************************)
AvgLimit == 2^14

\* words adsxReadCodeRaw32 may return: all ones, and, MaxLowWords times, zero
AnyWords(low) ==
  {U32(65535, 65535)} \cup (IF low < MaxLowWords THEN {U32(0, 0)} ELSE {})

InitAcc ==
  /\ \E bits \in ADSX_BITS_CHOICES :
       cfg = [bits |-> bits, two_point_cal |-> FALSE, cal |-> SketchCal]
  /\ g = [GInit(0, AvgLimit) EXCEPT !.range_code = 0]
  /\ pc = "avg_init"
  /\ loc = LocInit
  /\ spi = [cs |-> "HIGH", txn |-> 0]
  /\ dev = [range_sel |-> 0, writes |-> 1,
            conv |-> [by |-> "sr_nop2_x", call |-> 0, code |-> 0, low |-> 0]]
  /\ obs = ObsInit

\* uint32_t w = adsxReadCodeRaw32(), whatever the bus delivers
adsxReadCodeRaw32_any ==
  /\ pc = "rd_begin"
  /\ \E w \in AnyWords(obs.low) :
       /\ loc' = [loc EXCEPT !.w = w]
       /\ obs' = [obs EXCEPT
            !.low = IF w = U32(65535, 65535) THEN obs.low ELSE obs.low + 1,
            !.wFrom = [by |-> "rd_nop1_x", call |-> 0]]
  /\ pc' = "rd_ret"
  /\ UNCHANGED <<cfg, g, spi, dev>>

NextAcc ==
  \/ adsxReadAveragedVolts_begin
  \/ adsxReadCodeRaw32_any
  \/ adsxReadAveragedVolts_accumulate
  \/ adsxReadAveragedVolts_return

SpecAcc == InitAcc /\ [][NextAcc]_vars

(***************************************************************************)
(* Properties.                                                             *)
(***************************************************************************)
SumValue == obs.sum.hi * 65536 + obs.sum.lo

Calibrated(volts_raw) == FAdd(g.cal_offset, FMul(g.cal_slope, volts_raw))

Uncalibrated == adsxCodeToVolts(loc.codeN, cfg.bits, g.range_code, g.vref_volts)

NonDegenerate == cfg.two_point_cal /\ cfg.cal.p1m # cfg.cal.p2m

\* fabsf(a - b) <= 1e-5f
F_1E_5 == F32(0, 10995116, -40)

Within(a, b) ==
  /\ IsFinite(a)
  /\ IsFinite(b)
  /\ LET d == FSub(a, b) IN ~FLess(F_1E_5, F32(0, d.m, d.e))

C2_AverageNotTruncated ==
  pc = "loop_print" => loc.codeN * loc.n = SumValue

\* C3: the range-configuration write reaches the device before any sample is
\* acquired, and the conversion started by that write frame is read back only
\* by the flush frame of adsxSetRange: it is never the word a read keeps and
\* never enters the accumulator.
C3_ConfigBeforeSamples ==
  /\ (obs.calls > 0 \/ pc \in {"avg_init", "rd_begin"}) =>
        (dev.writes = 1 /\ dev.range_sel = g.range_code)
  /\ obs.wFrom.by # "sr_wr_x"
  /\ "sr_wr_x" \notin obs.accFrom
  /\ dev.conv.by = "sr_wr_x" =>
        pc \in {"sr_end1", "sr_store", "sr_begin2", "sr_nop1", "sr_nop1_x"}

C3_Witness ==
  /\ pc = "avg_fin"
  /\ obs.accFrom = {"rd_nop1_x"}
  /\ dev.writes = 1

\* C4: a code above 2^N - 1 converts to the same voltage as 2^N - 1, a finite
\* value: the clamp is silent.
C4_ClampAboveMask ==
  (obs.calls > 0 /\ loc.codeN > ADSX_CODE_MASK(cfg.bits)) =>
     /\ loc.volts_raw = adsxCodeToVolts(ADSX_CODE_MASK(cfg.bits), cfg.bits,
                                        g.range_code, g.vref_volts)
     /\ IsFinite(loc.volts_raw)

C4_Witness ==
  /\ obs.calls > 0
  /\ loc.codeN = 2^cfg.bits
  /\ obs.prev.codeN = ADSX_CODE_MASK(cfg.bits)
  /\ obs.prev.volts = loc.volts_raw

\* C5: with identical measured calibration values the fit divides nothing,
\* the model stays disabled with its initial slope and offset, and every
\* reading is the uncalibrated voltage.
C5_DegenerateCalDisabled ==
  (cfg.two_point_cal /\ cfg.cal.p1m = cfg.cal.p2m) =>
     /\ obs.divs = 0
     /\ ~g.cal_enabled
     /\ g.cal_slope = F_1_0
     /\ g.cal_offset = FZero
     /\ "enabled" \notin obs.diag
     /\ pc = "loop_print" => loc.volts = Uncalibrated

C5_Witness ==
  /\ cfg.two_point_cal
  /\ cfg.cal.p1m = cfg.cal.p2m
  /\ pc = "loop_print"
  /\ obs.diag = {"disabled"}
  /\ loc.volts = Uncalibrated

C7_MonotoneFromNegativeFullScale ==
  \A rt \in RangeTable :
     (g.range_code = rt.code /\ obs.calls > 0) =>
        /\ loc.codeN = 0 =>
              loc.volts_raw = IF rt.bipolar
                              THEN FNeg(FMul(rt.mult, g.vref_volts))
                              ELSE FZero
        /\ (/\ obs.calls > 1
            /\ obs.prev.codeN < loc.codeN
            /\ loc.codeN <= ADSX_CODE_MASK(cfg.bits)) =>
              FLess(obs.prev.volts, loc.volts_raw)

C7_Witness ==
  /\ obs.calls > 1
  /\ g.range_code = 4
  /\ cfg.bits = 18
  /\ obs.prev.codeN = ADSX_CODE_MASK(cfg.bits) - 1
  /\ loc.codeN = ADSX_CODE_MASK(cfg.bits)
  /\ FLess(obs.prev.volts, loc.volts_raw)

\* C8: during an averaging run of up to 2^14 codes the 32-bit accumulator
\* equals the unbounded sum of the codes read so far.
C8_AccumulatorNeverWraps ==
  /\ loc.i <= AvgLimit
  /\ loc.acc = obs.sum

C8_Witness ==
  /\ pc = "avg_fin"
  /\ cfg.bits = 18
  /\ loc.i = AvgLimit
  /\ loc.acc = U32(65535, 49152)

InTransactionLabels ==
  {"sr_wr", "sr_wr_x", "sr_end1", "sr_nop1", "sr_nop1_x", "sr_nop2",
   "sr_nop2_x", "sr_end2", "rd_nop1", "rd_nop1_x", "rd_nop2", "rd_nop2_x",
   "rd_end"}

\* C9 as stated: frames are sent inside a transaction, transactions do not
\* nest, chip-select is low exactly during a frame, and whenever no frame is
\* in progress chip-select is high and no transaction is open.
C9_Original ==
  /\ spi.txn \in {0, 1}
  /\ pc \in InFrameLabels => (spi.cs = "LOW" /\ spi.txn = 1)
  /\ (pc \notin InFrameLabels /\ pc # "setup") =>
        (spi.cs = "HIGH" /\ spi.txn = 0)

\* C9 as amended: frames are sent inside a transaction, transactions do not
\* nest, chip-select is low exactly during a frame and high otherwise once
\* setup has driven it; a transaction is open exactly from beginTransaction
\* to endTransaction of one adsxSetRange or adsxReadCodeRaw32 body, which
\* includes the pauses between that body's frames, and none is open outside.
C9_BusOwnership ==
  /\ spi.txn \in {0, 1}
  /\ pc \in InFrameLabels <=> spi.cs = "LOW"
  /\ pc \in InFrameLabels => spi.txn = 1
  /\ (pc \notin InFrameLabels /\ pc # "setup") => spi.cs = "HIGH"
  /\ spi.txn = 1 <=> pc \in InTransactionLabels

C9_Witness ==
  /\ pc = "rd_nop2"
  /\ spi.cs = "HIGH"
  /\ spi.txn = 1

\* C10: the word adsxReadCodeRaw32 returns is the result of the conversion
\* started by the first NOP frame of that same call.
C10_FreshSample ==
  pc \in {"rd_end", "rd_ret"} =>
     obs.wFrom = [by |-> "rd_nop1_x", call |-> obs.calls]

C10_Witness ==
  /\ pc = "rd_ret"
  /\ obs.calls = 3
  /\ obs.wFrom = [by |-> "rd_nop1_x", call |-> 3]
  /\ adsxReadCodeNbits(loc.w, cfg.bits) = ADSX_CODE_MASK(cfg.bits)

=============================================================================
